---- MODULE Spec2Model ----
(***************************************************************************)
(* Feedback portal: the submission form of app.py (analyze_feedback,       *)
(* load_data, save_data and the feedback_form handler) and the data load   *)
(* of pages/admin_dashboard.py.                                            *)
(*                                                                         *)
(* A response text is a sequence of lexical tokens:                        *)
(*   "FENCE"  three backquotes            "json"  the word json            *)
(*   "WS"     a run of whitespace         "TXT"   a word of plain text     *)
(*   "NUM"    a JSON number               "{" "}" braces                   *)
(*   "U:A"    "user_response":"A"         "U:"    "user_response":""       *)
(*   "S:B"    "summary":"B"               "A:C"   "action":"C"             *)
(*   "A:C}"   "action":"C}"  (a string value that holds a closing brace)   *)
(*   "CUT"    a member cut in the middle of its string value               *)
(* Commas between the members of an object are part of the member tokens.  *)
(***************************************************************************)
EXTENDS Integers, Sequences, FiniteSets, TLC

VARIABLES data_file, now, rating, review, response, ai_results, events,
          status, shown, dash, call

vars == <<data_file, now, rating, review, response, ai_results, events,
          status, shown, dash, call>>

----------------------------------------------------------------------------
(* Bounds *)

MaxSegs == 3

MaxSubmissions == 2

MaxRecords == 2

----------------------------------------------------------------------------
(* Program constants *)

RatingMin == 1

RatingMax == 5

NegativeMax == 2

Ratings == RatingMin..RatingMax

Reviews == {"", "good"}

Keys == {"user_response", "summary", "action"}

FallbackResponse == "Thank you for sharing your experience. We are currently experiencing a system issue and will address your feedback shortly."

FallbackSummary == "System/API Error"

FallbackAction == "Check system logs and API usage."

----------------------------------------------------------------------------
(* Values returned by json.loads *)

EmptyFields == [k \in {} |-> ""]

DictValue(f) == [kind |-> "dict", fields |-> f]

ScalarValue == [kind |-> "scalar", fields |-> EmptyFields]

NoValue == [kind |-> "none", fields |-> EmptyFields]

FallbackTriple ==
    DictValue([k \in Keys |->
        CASE k = "user_response" -> FallbackResponse
          [] k = "summary"       -> FallbackSummary
          [] k = "action"        -> FallbackAction])

Returned(v) == [raised |-> FALSE, exc |-> "", value |-> v]

Raised(e) == [raised |-> TRUE, exc |-> e, value |-> NoValue]

----------------------------------------------------------------------------
(* Response texts *)

MemberTokens == {"U:A", "U:", "S:B", "A:C", "A:C}"}

MemberKey(tok) ==
    CASE tok \in {"U:A", "U:"}    -> "user_response"
      [] tok = "S:B"              -> "summary"
      [] tok \in {"A:C", "A:C}"}  -> "action"

MemberVal(tok) ==
    CASE tok = "U:A"  -> "A"
      [] tok = "U:"   -> ""
      [] tok = "S:B"  -> "B"
      [] tok = "A:C"  -> "C"
      [] tok = "A:C}" -> "C}"

ObjFull == <<"{", "U:A", "S:B", "A:C", "}">>

ObjBrace == <<"{", "U:A", "S:B", "A:C}", "}">>

ObjMissing == <<"{", "U:A", "S:B", "}">>

ObjEmptyVal == <<"{", "U:", "S:B", "A:C", "}">>

ObjEmpty == <<"{", "}">>

FenceOpen == <<"FENCE", "json", "WS">>

FenceClose == <<"WS", "FENCE">>

Fenced(obj) == FenceOpen \o obj \o FenceClose

Segments ==
    {ObjFull, ObjBrace, ObjMissing, ObjEmptyVal, ObjEmpty,
     FenceOpen, FenceClose, Fenced(ObjFull), <<"TXT">>, <<"NUM">>, <<"{">>, <<"}">>, <<"WS">>}

RECURSIVE TextsOf(_)
TextsOf(n) ==
    IF n = 0 THEN {<< >>}
    ELSE LET S == TextsOf(n - 1) IN S \cup {t \o s : t \in S, s \in Segments}

Texts == TextsOf(MaxSegs)

ServiceRaises == [raised |-> TRUE, text |-> << >>]

ServiceReturns(t) == [raised |-> FALSE, text |-> t]

Outcomes == {ServiceRaises} \cup {ServiceReturns(t) : t \in Texts}

FormOutcomes ==
    {ServiceRaises} \cup
    {ServiceReturns(t) : t \in {<<"TXT", "WS", "TXT">>, ObjFull, ObjMissing,
                                Fenced(ObjFull), <<"NUM">>}}

----------------------------------------------------------------------------
(* str.strip, re.search and json.loads on token sequences *)

Max(S) == CHOOSE x \in S : \A y \in S : y <= x

Min(S) == CHOOSE x \in S : \A y \in S : x <= y

Slice(s, lo, hi) == [i \in 1..(hi - lo + 1) |-> s[lo + i - 1]]

SkipWs(s, i) == Min({k \in i..(Len(s) + 1) : k = Len(s) + 1 \/ s[k] # "WS"})

Strip(s) ==
    LET keep == {k \in 1..Len(s) : s[k] # "WS"}
    IN IF keep = {} THEN << >> ELSE Slice(s, Min(keep), Max(keep))

HasCloseBrace(tok) == tok \in {"}", "A:C}"}

FenceCloses(s, p) ==
    {q \in (p + 1)..Len(s) :
        /\ s[q] = "}"
        /\ LET r == SkipWs(s, q + 1) IN r <= Len(s) /\ s[r] = "FENCE"}

FencedAlt(s, i) ==
    LET p == SkipWs(s, i + 2)
    IN IF /\ i + 1 <= Len(s)
          /\ s[i] = "FENCE"
          /\ s[i + 1] = "json"
          /\ p <= Len(s)
          /\ s[p] = "{"
          /\ FenceCloses(s, p) # {}
       THEN [found |-> TRUE, alt |-> 1, start |-> i, lo |-> p,
             hi |-> Max(FenceCloses(s, p)),
             end |-> SkipWs(s, Max(FenceCloses(s, p)) + 1)]
       ELSE [found |-> FALSE, alt |-> 0, start |-> 0, lo |-> 0, hi |-> 0,
             end |-> 0]

BraceCloses(s, i) == {q \in (i + 1)..Len(s) : HasCloseBrace(s[q])}

BraceAlt(s, i) ==
    IF s[i] = "{" /\ BraceCloses(s, i) # {}
    THEN [found |-> TRUE, alt |-> 2, start |-> i, lo |-> i,
          hi |-> Max(BraceCloses(s, i)), end |-> Max(BraceCloses(s, i))]
    ELSE [found |-> FALSE, alt |-> 0, start |-> 0, lo |-> 0, hi |-> 0,
          end |-> 0]

MatchAt(s, i) == IF FencedAlt(s, i).found THEN FencedAlt(s, i) ELSE BraceAlt(s, i)

RegexSearch(s) ==
    LET starts == {i \in 1..Len(s) : MatchAt(s, i).found}
    IN IF starts = {}
       THEN [found |-> FALSE, alt |-> 0, start |-> 0, lo |-> 0, hi |-> 0,
             end |-> 0]
       ELSE MatchAt(s, Min(starts))

CutAt(s, lo, hi) ==
    [i \in 1..(hi - lo + 1) |->
        IF lo + i - 1 = hi /\ s[hi] = "A:C}" THEN "CUT" ELSE s[lo + i - 1]]

WholeMatch(s, m) == CutAt(s, m.start, m.end)

JsonString(s, m) == CutAt(s, m.lo, m.hi)

ObjectFields(t) ==
    LET idx(k) == {i \in 2..(Len(t) - 1) : t[i] \in MemberTokens /\ MemberKey(t[i]) = k}
    IN [k \in {c \in Keys : idx(c) # {}} |-> MemberVal(t[Max(idx(k))])]

JsonLoads(s) ==
    LET t == Strip(s)
    IN IF t = <<"NUM">> THEN Returned(ScalarValue)
       ELSE IF /\ Len(t) >= 2
               /\ t[1] = "{"
               /\ t[Len(t)] = "}"
               /\ \A i \in 2..(Len(t) - 1) : t[i] \in MemberTokens \cup {"WS"}
            THEN Returned(DictValue(ObjectFields(t)))
            ELSE Raised("JSONDecodeError")

----------------------------------------------------------------------------
(* analyze_feedback *)

CatchesOnlyDecodeErrors(e) == e = "JSONDecodeError"

Catches(e) == e \in {"ServiceError", "JSONDecodeError"}

RetriesOnFailure(outcome) == IF outcome.raised THEN 2 ELSE 1

GenerateAttempts(outcome) == 1

TryBody(outcome) ==
    IF outcome.raised THEN Raised("ServiceError")
    ELSE LET text == Strip(outcome.text)
             json_match == RegexSearch(text)
         IN IF json_match.found
            THEN JsonLoads(JsonString(text, json_match))
            ELSE JsonLoads(text)

ExceptException(r) ==
    IF r.raised /\ Catches(r.exc) THEN Returned(FallbackTriple) ELSE r

AnalyzeFeedback(outcome) == ExceptException(TryBody(outcome))

----------------------------------------------------------------------------
(* The backing file data.json, load_data and save_data *)

Absent == [kind |-> "absent", recs |-> << >>]

Undecodable == [kind |-> "undecodable", recs |-> << >>]

Malformed == [kind |-> "malformed", recs |-> << >>]

JsonObject == [kind |-> "object", recs |-> << >>]

JsonList(recs) == [kind |-> "list", recs |-> recs]

InitialFiles == {Absent, Undecodable, Malformed, JsonObject, JsonList(<< >>)}

Loaded(seq) == [raised |-> FALSE, exc |-> "", isseq |-> TRUE, value |-> seq]

LoadedObject == [raised |-> FALSE, exc |-> "", isseq |-> FALSE, value |-> << >>]

LoadRaised(e) == [raised |-> TRUE, exc |-> e, isseq |-> FALSE, value |-> << >>]

LoadData(file) ==
    CASE file.kind = "absent"      -> Loaded(<< >>)
      [] file.kind = "undecodable" -> LoadRaised("UnicodeDecodeError")
      [] file.kind = "malformed"   -> Loaded(<< >>)
      [] file.kind = "object"      -> LoadedObject
      [] file.kind = "list"        -> Loaded(file.recs)

SaveDataOverwrite(file, new_entry) ==
    LET data == LoadData(file)
    IN IF data.raised THEN [raised |-> TRUE, exc |-> data.exc, file |-> file]
       ELSE IF ~data.isseq
            THEN [raised |-> TRUE, exc |-> "AttributeError", file |-> file]
            ELSE [raised |-> FALSE, exc |-> "", file |-> JsonList(<<new_entry>>)]

SaveData(file, new_entry) ==
    LET data == LoadData(file)
    IN IF data.raised THEN [raised |-> TRUE, exc |-> data.exc, file |-> file]
       ELSE IF ~data.isseq
            THEN [raised |-> TRUE, exc |-> "AttributeError", file |-> file]
            ELSE [raised |-> FALSE, exc |-> "",
                  file |-> JsonList(Append(data.value, new_entry))]

----------------------------------------------------------------------------
(* The feedback_form submission handler *)

EntryFields ==
    {"timestamp", "rating", "review", "ai_response", "ai_summary", "ai_action"}

Get(d, k, default) == IF k \in DOMAIN d.fields THEN d.fields[k] ELSE default

AiField(k) ==
    CASE k = "user_response" -> "ai_response"
      [] k = "summary"       -> "ai_summary"
      [] k = "action"        -> "ai_action"

BuildEntryPresentOnly(ts, r, rv, res) ==
    [f \in {"timestamp", "rating", "review"} \cup
           {AiField(k) : k \in DOMAIN res.fields} |->
        CASE f = "timestamp"   -> ts
          [] f = "rating"      -> r
          [] f = "review"      -> rv
          [] f = "ai_response" -> res.fields["user_response"]
          [] f = "ai_summary"  -> res.fields["summary"]
          [] f = "ai_action"   -> res.fields["action"]]

BuildEntry(ts, r, rv, res) ==
    [timestamp   |-> ts,
     rating      |-> r,
     review      |-> rv,
     ai_response |-> Get(res, "user_response", ""),
     ai_summary  |-> Get(res, "summary", ""),
     ai_action   |-> Get(res, "action", "")]

Generated(outcome) == [i \in 1..GenerateAttempts(outcome) |-> "generate_content"]

Run(file, res, evs, st, msg) ==
    [file |-> file, ai_results |-> res, events |-> evs, status |-> st,
     shown |-> msg]

ShowResponse(file, entry, res, gen, s) ==
    IF s.raised
    THEN Run(file, res, gen \o <<"save_data">>, "crashed", s.exc)
    ELSE Run(s.file, res, gen \o <<"save_data", "show">>, "shown",
             entry.ai_response)

SaveEntry(file, entry, res, gen) ==
    ShowResponse(file, entry, res, gen, SaveData(file, entry))

PrepareEntry(file, ts, r, rv, a, gen) ==
    IF a.raised THEN Run(file, NoValue, gen, "crashed", a.exc)
    ELSE IF a.value.kind # "dict"
         THEN Run(file, a.value, gen, "crashed", "AttributeError")
         ELSE SaveEntry(file, BuildEntry(ts, r, rv, a.value), a.value, gen)

FeedbackForm(file, ts, r, rv, outcome) ==
    IF rv = "" THEN Run(file, NoValue, << >>, "ignored", "")
    ELSE PrepareEntry(file, ts, r, rv, AnalyzeFeedback(outcome),
                      Generated(outcome))

----------------------------------------------------------------------------
(* The data load and the metrics of the admin dashboard *)

NoDash == [view |-> "none", total_reviews |-> 0, negative_reviews |-> 0]

DashboardLoad(file) ==
    IF file.kind = "absent"
    THEN [view |-> "waiting", total_reviews |-> 0, negative_reviews |-> 0]
    ELSE LET raw_data == IF file.kind = "list" THEN file.recs ELSE << >>
         IN IF raw_data = << >>
            THEN [view |-> "empty", total_reviews |-> 0, negative_reviews |-> 0]
            ELSE [view |-> "rendered",
                  total_reviews |-> Len(raw_data),
                  negative_reviews |->
                      Cardinality({i \in 1..Len(raw_data) :
                                      raw_data[i].rating <= NegativeMax})]

----------------------------------------------------------------------------
(* The portal: submissions and dashboard renders over one backing file *)

NoCall == [fn |-> "none", raised |-> FALSE, isseq |-> FALSE, value |-> << >>,
           arg |-> << >>]

Init ==
    /\ data_file \in InitialFiles
    /\ now = 0
    /\ rating = RatingMax
    /\ review = ""
    /\ response = ServiceReturns(<< >>)
    /\ ai_results = NoValue
    /\ events = << >>
    /\ status = "idle"
    /\ shown = ""
    /\ dash = NoDash
    /\ call = NoCall

Rerun(run) ==
    /\ data_file' = run.file
    /\ ai_results' = run.ai_results
    /\ events' = run.events
    /\ status' = run.status
    /\ shown' = run.shown

Submit(r, rv, outcome) ==
    /\ now < MaxSubmissions
    /\ Rerun(FeedbackForm(data_file, now + 1, r, rv, outcome))
    /\ now' = now + 1
    /\ rating' = r
    /\ review' = rv
    /\ response' = IF rv = "" THEN response ELSE outcome
    /\ UNCHANGED <<dash, call>>

Dashboard ==
    /\ dash' = DashboardLoad(data_file)
    /\ UNCHANGED <<data_file, now, rating, review, response, ai_results,
                   events, status, shown, call>>

Next ==
    \/ \E r \in Ratings, rv \in Reviews, outcome \in FormOutcomes :
          Submit(r, rv, outcome)
    \/ Dashboard

Spec == Init /\ [][Next]_vars

----------------------------------------------------------------------------
(* analyze_feedback alone, on every response text of the bounded set *)

InitAnalyze ==
    /\ data_file = Absent
    /\ now = 0
    /\ rating \in Ratings
    /\ review = "good"
    /\ response \in Outcomes
    /\ ai_results = NoValue
    /\ events = << >>
    /\ status = "idle"
    /\ shown = ""
    /\ dash = NoDash
    /\ call = NoCall

Return(a) ==
    /\ ai_results' = a.value
    /\ status' = IF a.raised THEN "raised" ELSE "returned"

AnalyzeCall ==
    /\ status = "idle"
    /\ Return(AnalyzeFeedback(response))
    /\ events' = Generated(response)
    /\ UNCHANGED <<data_file, now, rating, review, response, shown, dash, call>>

NextAnalyze == AnalyzeCall

SpecAnalyze == InitAnalyze /\ [][NextAnalyze]_vars

----------------------------------------------------------------------------
(* load_data and save_data alone, on every kind of backing file *)

StoreEntries ==
    {BuildEntry(1, r, "good", res) :
        r \in Ratings, res \in {FallbackTriple, JsonLoads(ObjMissing).value}}

LoadDataCall ==
    /\ LET data == LoadData(data_file)
       IN call' = [fn |-> "load_data", raised |-> data.raised,
                   isseq |-> data.isseq, value |-> data.value, arg |-> << >>]
    /\ UNCHANGED <<data_file, now, rating, review, response, ai_results,
                   events, status, shown, dash>>

SaveDataCall(new_entry) ==
    /\ Len(data_file.recs) < MaxRecords
    /\ LET s == SaveData(data_file, new_entry)
       IN /\ data_file' = s.file
          /\ call' = [fn |-> "save_data", raised |-> s.raised, isseq |-> FALSE,
                      value |-> << >>, arg |-> <<new_entry>>]
    /\ UNCHANGED <<now, rating, review, response, ai_results, events, status,
                   shown, dash>>

NextStore ==
    \/ LoadDataCall
    \/ \E new_entry \in StoreEntries : SaveDataCall(new_entry)

SpecStore == Init /\ [][NextStore]_vars

----------------------------------------------------------------------------
(* Properties *)

Stored(file) == IF file.kind = "list" THEN file.recs ELSE << >>

IsPrefix(a, b) == Len(a) <= Len(b) /\ \A i \in 1..Len(a) : a[i] = b[i]

Count(evs, x) == Cardinality({i \in 1..Len(evs) : evs[i] = x})

TripleOf(u, s, a) == DictValue([user_response |-> u, summary |-> s, action |-> a])

Unparseable(text) ==
    /\ JsonLoads(text).raised
    /\ \A lo \in 1..Len(text) : \A hi \in lo..Len(text) :
          JsonLoads(Slice(text, lo, hi)).raised

(* C1: analyze_feedback never raises to its caller, and whenever the       *)
(* generation call raised or no part of the response text parses as        *)
(* structured data, it returns exactly the fixed fallback triple.          *)
C1_FallbackOnFailure ==
    /\ status # "raised"
    /\ (status = "returned" /\ (response.raised \/ Unparseable(response.text)))
          => ai_results = FallbackTriple

C1_Witness ==
    /\ status = "returned"
    /\ response.raised
    /\ ai_results = FallbackTriple

(* C2: every submission with a non-empty review completes whatever the     *)
(* service did: a response is shown and exactly one record for that        *)
(* submission is appended to the store (stated for a backing file that     *)
(* load_data reads as a list).                                             *)
C2_SubmissionAlwaysStored ==
    (status \in {"shown", "crashed"} /\ data_file.kind \in {"absent", "malformed", "list"})
        => /\ status = "shown"
           /\ Count(events, "save_data") = 1
           /\ Len(Stored(data_file)) >= 1
           /\ LET e == Stored(data_file)[Len(Stored(data_file))]
              IN e.timestamp = now /\ e.rating = rating /\ e.review = review

(* C3: for every behaviour of the service, analyze_feedback returns a      *)
(* triple whose fields user_response, summary and action are all present   *)
(* and are non-empty strings.                                              *)
C3_AllFieldsNonEmpty ==
    status = "returned"
        => /\ ai_results.kind = "dict"
           /\ \A k \in Keys :
                 k \in DOMAIN ai_results.fields /\ ai_results.fields[k] # ""

FenceStarts(s) ==
    {i \in 1..Len(s) :
        /\ i + 1 <= Len(s)
        /\ s[i] = "FENCE"
        /\ s[i + 1] = "json"
        /\ \E c \in (i + 2)..Len(s) : s[c] = "FENCE"}

FenceContent(s, i) ==
    Slice(s, i + 2, Min({c \in (i + 2)..Len(s) : s[c] = "FENCE"}) - 1)

FencedPayload(s) ==
    IF FenceStarts(s) = {} THEN Raised("none")
    ELSE JsonLoads(FenceContent(s, Min(FenceStarts(s))))

BraceStarts(s) ==
    {p \in 1..Len(s) : s[p] = "{" /\ \E q \in (p + 1)..Len(s) : s[q] = "}"}

BraceContent(s, p) == Slice(s, p, Min({q \in (p + 1)..Len(s) : s[q] = "}"}))

BracePayload(s) ==
    IF BraceStarts(s) = {} THEN Raised("none")
    ELSE JsonLoads(BraceContent(s, Min(BraceStarts(s))))

OrderedExtraction(s) ==
    IF ~FencedPayload(s).raised THEN FencedPayload(s).value
    ELSE IF ~BracePayload(s).raised THEN BracePayload(s).value
         ELSE IF ~JsonLoads(s).raised THEN JsonLoads(s).value
              ELSE FallbackTriple

(* C4: the result is the payload found by, in order, (a) the first fenced  *)
(* block tagged json, (b) the first brace-delimited payload anywhere in    *)
(* the text, from the first opening brace to the closing brace that ends   *)
(* it, (c) the whole trimmed text; the fallback triple only when all three *)
(* yield nothing.  So a fenced payload wins over a brace-delimited one     *)
(* wherever both occur, and text after the first complete brace-delimited  *)
(* payload does not prevent its extraction.                                *)
C4_OrderedStrategies ==
    (status = "returned" /\ ~response.raised)
        => ai_results = OrderedExtraction(Strip(response.text))

FullObjects == {ObjFull, ObjBrace, ObjEmptyVal}

Payload(obj) == TripleOf(MemberVal(obj[2]), MemberVal(obj[3]), MemberVal(obj[4]))

(* C5: a well-formed object with the three keys parses to exactly that     *)
(* triple when it is the whole response text and when it is wrapped in a   *)
(* json fenced block.                                                      *)
C5_WholeAndFencedAgree ==
    \A obj \in FullObjects :
        (/\ status = "returned"
         /\ ~response.raised
         /\ response.text \in {obj, Fenced(obj)})
            => ai_results = Payload(obj)

C5_Witness ==
    /\ status = "returned"
    /\ ~response.raised
    /\ response.text = Fenced(ObjFull)
    /\ ai_results = TripleOf("A", "B", "C")

(* C6: for every state of the backing file, load_data() after              *)
(* save_data(r) returns what load_data() returned before with r added as   *)
(* its last element.                                                       *)
C6_AppendMonotone ==
    [][call'.fn = "save_data"
          => /\ ~call'.raised
             /\ ~LoadData(data_file).raised
             /\ LoadData(data_file).isseq
             /\ ~LoadData(data_file').raised
             /\ LoadData(data_file').value =
                    Append(LoadData(data_file).value, call'.arg[1])]_vars

(* C7: the store is append-only: every earlier store content is a prefix   *)
(* of every later one, the only step that changes the backing file is a    *)
(* submission that was saved and shown, and it adds that submission's      *)
(* record; dashboard loads and analyses that end before the save leave     *)
(* the file as it was.                                                     *)
C7_AppendOnly ==
    [][/\ IsPrefix(Stored(data_file), Stored(data_file'))
       /\ data_file' # data_file
             => /\ status' = "shown"
                /\ dash' = dash
                /\ Stored(data_file') =
                      Append(Stored(data_file),
                             BuildEntry(now', rating', review', ai_results'))]_vars

C7_Witness ==
    /\ Len(Stored(data_file)) = 2
    /\ dash.view = "rendered"
    /\ dash.total_reviews = 2

(* C8: every stored record has all six fields; a failed analysis fills     *)
(* the three AI fields with the fallback strings and a payload that lacks  *)
(* an expected key fills that field with the empty string.                 *)
C8_SixFields ==
    /\ \A i \in 1..Len(Stored(data_file)) :
          DOMAIN Stored(data_file)[i] = EntryFields
    /\ status = "shown"
          => LET e == Stored(data_file)[Len(Stored(data_file))]
             IN /\ (response.raised \/ Unparseable(response.text))
                      => /\ e.ai_response = FallbackResponse
                         /\ e.ai_summary = FallbackSummary
                         /\ e.ai_action = FallbackAction
                /\ \A k \in Keys :
                      k \notin DOMAIN ai_results.fields => e[AiField(k)] = ""

C8_Witness ==
    /\ status = "shown"
    /\ ai_results.kind = "dict"
    /\ "action" \notin DOMAIN ai_results.fields
    /\ Stored(data_file)[Len(Stored(data_file))].ai_action = ""

(* C9: load_data() returns the empty sequence, without raising, whenever   *)
(* the backing file is absent, unreadable or malformed, and a sequence of  *)
(* records in every other case.                                            *)
C9_LoadNeverRaises ==
    call.fn = "load_data"
        => /\ ~call.raised
           /\ call.isseq
           /\ data_file.kind \in {"absent", "undecodable", "malformed"}
                 => call.value = << >>

(* C10: a run of the handler invokes the generation service at most once,  *)
(* a failed attempt yields the fallback triple with no second attempt, and *)
(* the one call comes before the single store append.                      *)
C10_NoRetry ==
    /\ Count(events, "generate_content") <= 1
    /\ Count(events, "save_data") <= 1
    /\ status \in {"shown", "crashed"}
          => /\ Count(events, "generate_content") = 1
             /\ events[1] = "generate_content"
    /\ Count(events, "save_data") = 1 => events[2] = "save_data"
    /\ (status \in {"shown", "crashed"} /\ response.raised)
          => ai_results = FallbackTriple

C10_Witness ==
    /\ status = "shown"
    /\ response.raised
    /\ events = <<"generate_content", "save_data", "show">>
    /\ ai_results = FallbackTriple

====
